---- MODULE Spec2Model ----
(***************************************************************************)
(* Object utilities of coc.nvim (src/util/object.ts): deepClone,           *)
(* deepFreeze, cloneAndChange, mixin, safeStringify and equals, modelled   *)
(* over an explicit heap so that reference identity, aliasing, in-place    *)
(* mutation and cyclic graphs are visible.                                 *)
(*                                                                         *)
(* A JavaScript value is an integer: a positive integer is a reference     *)
(* (the address of a node of the heap), a non-positive one a primitive.    *)
(* A heap node is a record [kind, keys, vals]: kind is "object" (a plain   *)
(* mapping) or "array" (a sequence), keys is the list of own enumerable    *)
(* property names in insertion order (for an array the indices "0", "1",   *)
(* ...), vals the values at those names.                                   *)
(***************************************************************************)
EXTENDS Integers, Sequences, FiniteSets, TLC

VARIABLES
    heap,                \* the object heap: a sequence of nodes, addressed 1..Len(heap)
    frozen,              \* the addresses of the nodes Object.freeze has frozen
    frozen0,             \* the frozen nodes when the call under study began
    pc,                  \* where the call under study stands
    args,                \* the arguments of the call under study
    ret,                 \* what the call returned (or the text it produced)
    stack,               \* deepFreeze: its work queue `stack`
    frames,              \* cloneAndChange: the activation records of _cloneAndChange
    encounteredObjects,  \* cloneAndChange: the list threaded through _cloneAndChange
    heap0,               \* the heap as it was when the call under study began
    srcNodes             \* mixin: the nodes of the source graphs of the earlier calls

vars == <<heap, frozen, frozen0, pc, args, ret, stack, frames, encounteredObjects, heap0, srcNodes>>

---------------------------------------------------------------------------
(* Bounds of the model *)

\* the largest number of mapping/sequence nodes in one literal input value
MaxSize == 2

\* the number of nodes of an arbitrary (possibly cyclic) input graph
NumNodes == 3

---------------------------------------------------------------------------
(* Values *)

\* the primitive `undefined`
Undefined == 0
\* the primitive `null`
Null == Undefined - 1
\* two distinct numbers (1 and 2)
Num1 == Null - 1
Num2 == Num1 - 1

\* the string '[Circular]'
CircularString == Num2 - 1

\* the property names of the mappings of the model
Keys == {"a", "b"}

\* the index names of a sequence of n elements
ArrKeys(n) == [i \in 1..n |-> ToString(i - 1)]

IsRef(v) == v > 0

\* `!v` is false
Truthy(v) == IsRef(v) \/ v \in {Num1, Num2, CircularString}

\* typeof v
TypeOf(v) ==
    IF v = Undefined THEN "undefined"
    ELSE IF IsRef(v) \/ v = Null THEN "object"
    ELSE IF v = CircularString THEN "string"
    ELSE "number"

\* Array.isArray(v)
IsArray(h, v) == IsRef(v) /\ h[v].kind = "array"

\* Is.array(v)
Is_array(h, v) == IsArray(h, v)

\* Is.objectLiteral(v): a plain mapping
Is_objectLiteral(h, v) == IsRef(v) /\ h[v].kind = "object"

\* the position of key k among the own keys of node r, 0 when it has none
KeyIndex(h, r, k) ==
    IF \E i \in 1..Len(h[r].keys) : h[r].keys[i] = k
    THEN CHOOSE i \in 1..Len(h[r].keys) : h[r].keys[i] = k
    ELSE 0

\* `k in r`, for a node whose prototype chain contributes none of the names used
HasKey(h, r, k) == KeyIndex(h, r, k) # 0

\* r[k]
Get(h, r, k) == IF HasKey(h, r, k) THEN h[r].vals[KeyIndex(h, r, k)] ELSE Undefined

\* r[k] = v
SetProp(h, r, k, v) ==
    IF HasKey(h, r, k)
    THEN [h EXCEPT ![r].vals[KeyIndex(h, r, k)] = v]
    ELSE [h EXCEPT ![r].keys = Append(@, k), ![r].vals = Append(@, v)]

\* the set of own keys of node r
KeySet(h, r) == {h[r].keys[i] : i \in 1..Len(h[r].keys)}

\* the nodes a node refers to directly
Children(h, r) == {h[r].vals[i] : i \in 1..Len(h[r].vals)} \cap (1..Len(h))

\* the nodes reachable from the set of nodes S (S included)
RECURSIVE ReachFrom(_, _)
ReachFrom(h, S) ==
    LET T == S \cup UNION {Children(h, r) : r \in S}
    IN IF T = S THEN S ELSE ReachFrom(h, T)

\* the nodes reachable from value v
Reach(h, v) == IF IsRef(v) THEN ReachFrom(h, {v}) ELSE {}

\* no node reachable from v is its own descendant
Acyclic(h, v) == \A r \in Reach(h, v) : r \notin ReachFrom(h, Children(h, r))

---------------------------------------------------------------------------
(* Input values: what a caller writes as a literal, and its allocation *)

\* the orders in which a caller can have inserted the keys of a mapping
KeySeqs == {<<>>, <<"a">>, <<"b">>, <<"a", "b">>, <<"b", "a">>}

\* the same, each key set in one order only
SortedKeySeqs == {<<>>, <<"a">>, <<"b">>, <<"a", "b">>}

\* the longest sequence literal
MaxArrayLen == Cardinality(Keys)

PrimLit(p) == [kind |-> "prim", v |-> p]

\* the number of mapping/sequence nodes of a literal
RECURSIVE LitSize(_), LitSizes(_, _)
LitSize(l) == IF l.kind = "prim" THEN 0 ELSE 1 + LitSizes(l.vals, 1)
LitSizes(ls, i) == IF i > Len(ls) THEN 0 ELSE LitSize(ls[i]) + LitSizes(ls, i + 1)

\* the literals of at most n nodes: primitives P, mappings keyed by one of KS,
\* sequences of at most MaxArrayLen elements when arrays is TRUE
RECURSIVE Lits(_, _, _, _)
Lits(n, P, KS, arrays) ==
    LET prims == {PrimLit(p) : p \in P}
    IN IF n = 0 THEN prims
       ELSE LET sub == Lits(n - 1, P, KS, arrays)
                objs == UNION {{[kind |-> "object", keys |-> ks, vals |-> vs] :
                                    vs \in [1..Len(ks) -> sub]} : ks \in KS}
                arrs == IF arrays
                        THEN UNION {{[kind |-> "array", keys |-> ArrKeys(m), vals |-> vs] :
                                        vs \in [1..m -> sub]} : m \in 0..MaxArrayLen}
                        ELSE {}
            IN prims \cup {l \in objs \cup arrs : LitSize(l) <= n}

\* evaluating a literal: the heap with its nodes added, and the value it denotes
RECURSIVE Alloc(_, _), AllocProps(_, _, _, _)
Alloc(h, l) ==
    IF l.kind = "prim" THEN [heap |-> h, ret |-> l.v]
    ELSE LET r == Len(h) + 1
             h1 == Append(h, [kind |-> l.kind, keys |-> <<>>, vals |-> <<>>])
         IN [heap |-> AllocProps(h1, l, r, 1), ret |-> r]
AllocProps(h, l, r, i) ==
    IF i > Len(l.keys) THEN h
    ELSE LET c == Alloc(h, l.vals[i])
         IN AllocProps(SetProp(c.heap, r, l.keys[i], c.ret), l, r, i + 1)

---------------------------------------------------------------------------
(* equals *)

\* the order Array.prototype.sort puts the property names in
KeyOrder == <<"0", "1", "2", "a", "b">>
KeyRank(k) == CHOOSE i \in 1..Len(KeyOrder) : KeyOrder[i] = k

\* a sort that is left out: the keys stay in insertion order
SortKeysOmitted(ks) == ks

\* keys.sort()
RECURSIVE SortKeys(_)
SortKeys(ks) ==
    IF Len(ks) = 0 THEN <<>>
    ELSE LET m == CHOOSE i \in 1..Len(ks) :
                     \A j \in 1..Len(ks) : KeyRank(ks[i]) <= KeyRank(ks[j])
             rest == [j \in 1..(Len(ks) - 1) |-> IF j < m THEN ks[j] ELSE ks[j + 1]]
         IN <<ks[m]>> \o SortKeys(rest)

\* equals(oneKeys, otherKeys): two arrays of strings, compared length first and
\* then element by element with ===
EqualsKeys(oneKeys, otherKeys) ==
    /\ Len(oneKeys) = Len(otherKeys)
    /\ \A i \in 1..Len(oneKeys) : oneKeys[i] = otherKeys[i]

\* equals(one, other)
RECURSIVE equals(_, _, _)
equals(h, one, other) ==
    IF one = other THEN TRUE
    ELSE IF one \in {Null, Undefined} \/ other \in {Null, Undefined} THEN FALSE
    ELSE IF TypeOf(one) # TypeOf(other) THEN FALSE
    ELSE IF TypeOf(one) # "object" THEN FALSE
    ELSE IF IsArray(h, one) # IsArray(h, other) THEN FALSE
    ELSE IF IsArray(h, one)
    THEN /\ Len(h[one].vals) = Len(h[other].vals)
         /\ \A i \in 1..Len(h[one].vals) : equals(h, h[one].vals[i], h[other].vals[i])
    ELSE LET oneKeys == SortKeys(h[one].keys)
             otherKeys == SortKeys(h[other].keys)
         IN /\ EqualsKeys(oneKeys, otherKeys)
            /\ \A i \in 1..Len(oneKeys) :
                   equals(h, Get(h, one, oneKeys[i]), Get(h, other, oneKeys[i]))

\* the primitives the operands of equals are built from
EqPrims == {Num1, Num2}
EqLits == Lits(MaxSize, EqPrims, KeySeqs, TRUE) \cup {PrimLit(Null), PrimLit(Undefined)}

Idle ==
    /\ frozen = {}
    /\ frozen0 = {}
    /\ ret = Undefined
    /\ stack = <<>>
    /\ frames = <<>>
    /\ encounteredObjects = <<>>
    /\ srcNodes = {}

InitEquals ==
    /\ \E la \in EqLits, lb \in EqLits :
          LET A == Alloc(<<>>, la)
              B == Alloc(A.heap, lb)
          IN /\ heap = B.heap
             /\ \E other \in {B.ret} \cup Reach(B.heap, A.ret) :
                    args = [one |-> A.ret, other |-> other]
    /\ heap0 = heap
    /\ pc = "ready"
    /\ Idle

CallEquals ==
    /\ pc = "ready"
    /\ ret' = equals(heap, args.one, args.other)
    /\ pc' = "done"
    /\ UNCHANGED <<heap, frozen, frozen0, args, stack, frames, encounteredObjects, heap0, srcNodes>>

NextEquals == CallEquals

SpecEquals == InitEquals /\ [][NextEquals]_vars

\* structural sameness, as C7 words it
RECURSIVE SameStructure(_, _, _)
SameStructure(h, a, b) ==
    IF IsRef(a) /\ IsRef(b)
    THEN /\ h[a].kind = h[b].kind
         /\ IF h[a].kind = "array"
            THEN /\ Len(h[a].vals) = Len(h[b].vals)
                 /\ \A i \in 1..Len(h[a].vals) : SameStructure(h, h[a].vals[i], h[b].vals[i])
            ELSE /\ KeySet(h, a) = KeySet(h, b)
                 /\ \A k \in KeySet(h, a) : SameStructure(h, Get(h, a, k), Get(h, b, k))
    ELSE a = b

\* C7: over acyclic values, equals(a, b) is true exactly when a and b are
\* structurally the same (identical primitives, sequences equal element by
\* element in order, mappings with the same key set and equal values at every
\* key, whatever the insertion order); it is false when exactly one operand is
\* null/undefined or when one is a sequence and the other is not.
EqualsIsStructural ==
    pc = "done" =>
        /\ ret = SameStructure(heap, args.one, args.other)
        /\ (args.one \in {Null, Undefined}) # (args.other \in {Null, Undefined}) => ret = FALSE
        /\ IsArray(heap, args.one) # IsArray(heap, args.other) => ret = FALSE

\* two distinct mappings with the same two keys inserted in opposite orders,
\* found equal
EqualsWitness ==
    /\ pc = "done"
    /\ ret = TRUE
    /\ args.one # args.other
    /\ Is_objectLiteral(heap, args.one)
    /\ Len(heap[args.one].keys) = 2
    /\ heap[args.one].keys # heap[args.other].keys

---------------------------------------------------------------------------
(* mixin and assign *)

\* mixin(destination, source, overwrite): the heap it leaves and what it returns
RECURSIVE mixin(_, _, _, _), mixinKeys(_, _, _, _, _, _)
mixin(h, destination, source, overwrite) ==
    IF ~Is_objectLiteral(h, destination) THEN [heap |-> h, ret |-> source]
    ELSE IF Is_objectLiteral(h, source)
    THEN [heap |-> mixinKeys(h, destination, source, overwrite, h[source].keys, 1),
          ret |-> destination]
    ELSE [heap |-> h, ret |-> destination]

\* the callback of forEach with overwrite taken as set
MixinKeyOverwriting(h, destination, source, overwrite, key) ==
    LET dv == Get(h, destination, key)
        sv == Get(h, source, key)
    IN IF HasKey(h, destination, key) /\ Is_objectLiteral(h, dv) /\ Is_objectLiteral(h, sv)
       THEN mixin(h, dv, sv, TRUE).heap
       ELSE SetProp(h, destination, key, sv)

\* the callback of Object.keys(source).forEach: the heap after it ran on key
MixinKey(h, destination, source, overwrite, key) ==
    LET dv == Get(h, destination, key)
        sv == Get(h, source, key)
    IN IF HasKey(h, destination, key)
       THEN IF overwrite
            THEN IF Is_objectLiteral(h, dv) /\ Is_objectLiteral(h, sv)
                 THEN mixin(h, dv, sv, overwrite).heap
                 ELSE SetProp(h, destination, key, sv)
            ELSE h
       ELSE SetProp(h, destination, key, sv)

\* Object.keys(source).forEach, from the i-th key of ks on
mixinKeys(h, destination, source, overwrite, ks, i) ==
    IF i > Len(ks) THEN h
    ELSE mixinKeys(MixinKey(h, destination, source, overwrite, ks[i]),
                   destination, source, overwrite, ks, i + 1)

\* assign(destination, ...sources): the heap it leaves
RECURSIVE assign(_, _, _), assignKeys(_, _, _, _, _)
assign(h, destination, sources) ==
    IF Len(sources) = 0 THEN h
    ELSE assign(assignKeys(h, destination, Head(sources), h[Head(sources)].keys, 1),
                destination, Tail(sources))
assignKeys(h, destination, source, ks, i) ==
    IF i > Len(ks) THEN h
    ELSE assignKeys(SetProp(h, destination, ks[i], Get(h, source, ks[i])),
                    destination, source, ks, i + 1)

---------------------------------------------------------------------------
(* deepClone *)

\* a test that never asks for a copy: every property is assigned as it is
NeedsCloneNever(v) == FALSE

\* obj[key] && typeof obj[key] === 'object'
NeedsClone(v) == Truthy(v) /\ TypeOf(v) = "object"

\* deepClone(obj): the heap with the copy added, and the value returned
RECURSIVE deepClone(_, _), deepCloneKeys(_, _, _, _)
deepClone(h, obj) ==
    IF ~Truthy(obj) \/ TypeOf(obj) # "object" THEN [heap |-> h, ret |-> obj]
    ELSE LET result == Len(h) + 1
             h1 == Append(h, [kind |-> IF IsArray(h, obj) THEN "array" ELSE "object",
                              keys |-> <<>>, vals |-> <<>>])
         IN [heap |-> deepCloneKeys(h1, obj, result, 1), ret |-> result]

\* the body of Object.keys(obj).forEach, from the i-th key on
deepCloneKeys(h, obj, result, i) ==
    IF i > Len(h[obj].keys) THEN h
    ELSE LET key == h[obj].keys[i]
             v == h[obj].vals[i]
         IN IF NeedsClone(v)
            THEN LET c == deepClone(h, v)
                 IN deepCloneKeys(SetProp(c.heap, result, key, c.ret), obj, result, i + 1)
            ELSE deepCloneKeys(SetProp(h, result, key, v), obj, result, i + 1)

\* the acyclic heaps of n nodes: a node refers only to nodes of higher address,
\* so a node can be shared by several parents but never be its own ancestor
DagNode(n, r, P) ==
    LET V == P \cup ((r + 1)..n)
    IN UNION {{[kind |-> "object", keys |-> ks, vals |-> vs] :
                   vs \in [1..Len(ks) -> V]} : ks \in SortedKeySeqs}
       \cup UNION {{[kind |-> "array", keys |-> ArrKeys(m), vals |-> vs] :
                   vs \in [1..m -> V]} : m \in 0..MaxArrayLen}

\* nodes r..n of such a heap
RECURSIVE DagTail(_, _, _)
DagTail(n, r, P) ==
    IF r > n THEN {<<>>}
    ELSE {<<node>> \o rest : node \in DagNode(n, r, P), rest \in DagTail(n, r + 1, P)}

DagHeaps(n, P) == DagTail(n, 1, P)

\* the primitives inside the values given to deepClone
ClonePrims == {Null, Num1}

InitClone ==
    /\ heap \in DagHeaps(NumNodes, ClonePrims)
    /\ args \in {[obj |-> v] : v \in {1} \cup {heap[1].vals[i] : i \in 1..Len(heap[1].vals)}}
    /\ heap0 = heap
    /\ pc = "ready"
    /\ Idle

CallDeepClone ==
    /\ pc = "ready"
    /\ LET c == deepClone(heap, args.obj)
       IN heap' = c.heap /\ ret' = c.ret
    /\ pc' = "done"
    /\ UNCHANGED <<frozen, frozen0, args, stack, frames, encounteredObjects, heap0, srcNodes>>

\* the caller goes on to merge one of the original nodes into the copy
MixinIntoClone ==
    /\ pc = "done"
    /\ IsRef(ret)
    /\ \E source \in 1..Len(heap0), overwrite \in BOOLEAN :
          heap' = mixin(heap, ret, source, overwrite).heap
    /\ pc' = "mutated"
    /\ UNCHANGED <<frozen, frozen0, args, ret, stack, frames, encounteredObjects, heap0, srcNodes>>

\* or to assign the properties of one of the original nodes to the copy
AssignIntoClone ==
    /\ pc = "done"
    /\ IsRef(ret)
    /\ \E source \in 1..Len(heap0) : heap' = assign(heap, ret, <<source>>)
    /\ pc' = "mutated"
    /\ UNCHANGED <<frozen, frozen0, args, ret, stack, frames, encounteredObjects, heap0, srcNodes>>

NextClone == CallDeepClone \/ MixinIntoClone \/ AssignIntoClone

SpecClone == InitClone /\ [][NextClone]_vars

\* C6: for an acyclic x, y = deepClone(x) satisfies equals(x, y); no node of
\* y is a node of x, so that a later mixin or assign into y leaves every node
\* of x as it was; a non-object input is returned unchanged.
DeepCloneFreshAndEqual ==
    /\ pc = "done" =>
          /\ equals(heap, args.obj, ret)
          /\ ~IsRef(args.obj) => ret = args.obj /\ heap = heap0
          /\ Reach(heap, ret) \cap Reach(heap, args.obj) = {}
          /\ \A r \in 1..Len(heap0) : heap[r] = heap0[r]
    /\ pc = "mutated" => \A r \in 1..Len(heap0) : heap[r] = heap0[r]

\* a value with a node shared by two properties was cloned, and the copy was
\* then changed by the merge
DeepCloneWitness ==
    /\ pc = "mutated"
    /\ args.obj = 1
    /\ Len(heap0[1].vals) = 2
    /\ heap0[1].vals[1] = heap0[1].vals[2]
    /\ IsRef(heap0[1].vals[1])
    /\ heap[ret] # heap0[1]
    /\ \E r \in Reach(heap, ret) : r > Len(heap0) /\ Len(heap[r].keys) = 2

---------------------------------------------------------------------------
(* One call of mixin on two values that share no node *)

\* the primitives inside the values given to mixin
MixinPrims == {Num1, Num2}
MixinLits == Lits(MaxSize, MixinPrims, SortedKeySeqs, TRUE)

InitMixin ==
    /\ \E ld \in MixinLits, ls \in MixinLits, overwrite \in BOOLEAN :
          LET D == Alloc(<<>>, ld)
              S == Alloc(D.heap, ls)
          IN /\ heap = S.heap
             /\ args = [destination |-> D.ret, source |-> S.ret, overwrite |-> overwrite]
    /\ heap0 = heap
    /\ pc = "ready"
    /\ Idle

CallMixin ==
    /\ pc = "ready"
    /\ LET m == mixin(heap, args.destination, args.source, args.overwrite)
       IN heap' = m.heap /\ ret' = m.ret
    /\ pc' = "done"
    /\ UNCHANGED <<frozen, frozen0, args, stack, frames, encounteredObjects, heap0, srcNodes>>

NextMixin == CallMixin

SpecMixin == InitMixin /\ [][NextMixin]_vars

\* the keys the destination and the source both had before the call, both
\* values plain mappings
BothMappings(k) ==
    /\ HasKey(heap0, args.destination, k)
    /\ HasKey(heap0, args.source, k)
    /\ Is_objectLiteral(heap0, Get(heap0, args.destination, k))
    /\ Is_objectLiteral(heap0, Get(heap0, args.source, k))

MixinContract ==
    pc = "done" =>
        LET d == args.destination
            s == args.source
        IN IF ~Is_objectLiteral(heap0, d) THEN ret = s /\ heap = heap0
           ELSE IF ~Is_objectLiteral(heap0, s) THEN ret = d /\ heap = heap0
           ELSE /\ ret = d
                /\ \A k \in KeySet(heap0, s) \ KeySet(heap0, d) :
                       HasKey(heap, d, k) /\ Get(heap, d, k) = Get(heap0, s, k)
                /\ \A k \in KeySet(heap0, s) \cap KeySet(heap0, d) :
                       ~BothMappings(k) =>
                           Get(heap, d, k) = IF args.overwrite THEN Get(heap0, s, k)
                                             ELSE Get(heap0, d, k)
                /\ \A k \in KeySet(heap0, d) \ KeySet(heap0, s) :
                       HasKey(heap, d, k) /\ Get(heap, d, k) = Get(heap0, d, k)

\* a call without overwrite that added a key of the source and kept the
\* different value the destination had at a shared key
MixinWitness ==
    /\ pc = "done"
    /\ ~args.overwrite
    /\ Is_objectLiteral(heap0, args.destination)
    /\ Is_objectLiteral(heap0, args.source)
    /\ heap0[args.destination].keys = <<"a">>
    /\ heap0[args.source].keys = <<"a", "b">>
    /\ Get(heap0, args.destination, "a") # Get(heap0, args.source, "a")
    /\ heap[args.destination].keys = <<"a", "b">>

---------------------------------------------------------------------------
(* A series of mixin calls into one destination, each from a fresh source *)

\* the values of the series: mappings over one primitive
SeriesLits == Lits(MaxSize, {Num1}, SortedKeySeqs, FALSE) \ {PrimLit(Num1)}

InitMixinSeries ==
    /\ \E ld \in SeriesLits, l1 \in SeriesLits, l2 \in SeriesLits :
          LET D == Alloc(<<>>, ld)
              S1 == Alloc(D.heap, l1)
              S2 == Alloc(S1.heap, l2)
          IN /\ heap = S2.heap
             /\ args = [destination |-> D.ret, sources |-> <<S1.ret, S2.ret>>]
    /\ heap0 = heap
    /\ pc = "ready"
    /\ Idle

\* the next call of the series: mixin(destination, sources[0], overwrite)
CallMixinNext ==
    /\ pc = "ready"
    /\ \E overwrite \in BOOLEAN :
          LET m == mixin(heap, args.destination, Head(args.sources), overwrite)
          IN heap' = m.heap /\ ret' = m.ret
    /\ srcNodes' = srcNodes \cup Reach(heap, Head(args.sources))
    /\ args' = [args EXCEPT !.sources = Tail(@)]
    /\ pc' = IF Len(args.sources) = 1 THEN "done" ELSE "ready"
    /\ UNCHANGED <<frozen, frozen0, stack, frames, encounteredObjects, heap0>>

NextMixinSeries == CallMixinNext

SpecMixinSeries == InitMixinSeries /\ [][NextMixinSeries]_vars

\* C10 as the claim states it: starting from disjoint graphs, no call of the
\* series changes a mapping that was (or was nested in) the source of an
\* earlier call: every such node is as it was before the first call.
MixinLeavesEarlierSources ==
    \A r \in srcNodes : heap[r] = heap0[r]

---------------------------------------------------------------------------
(* Arbitrary object graphs, cycles included *)

\* the nodes a graph of n nodes can hold, of the kinds K over the primitives P
GraphNode(n, P, K) ==
    LET V == P \cup (1..n)
    IN UNION {{[kind |-> kind,
                keys |-> IF kind = "array" THEN ArrKeys(m) ELSE SubSeq(<<"a", "b">>, 1, m),
                vals |-> vs] : vs \in [1..m -> V], kind \in K} :
              m \in 0..MaxArrayLen}

\* the heaps of n nodes, every node reachable from node 1
GraphHeaps(n, P, K) ==
    {h \in [1..n -> GraphNode(n, P, K)] : ReachFrom(h, {1}) = 1..n}

---------------------------------------------------------------------------
(* safeStringify *)

\* the JSON text of a primitive
PrimJSON(v) ==
    IF v = Null THEN "null"
    ELSE IF v = Num1 THEN "1"
    ELSE IF v = Num2 THEN "2"
    ELSE "\"[Circular]\""

\* a replacer that tracks plain mappings only
replacerOfMappings(h, seen, value) ==
    IF Is_objectLiteral(h, value)
    THEN IF \E i \in 1..Len(seen) : seen[i] = value
         THEN [value |-> CircularString, seen |-> seen]
         ELSE [value |-> value, seen |-> Append(seen, value)]
    ELSE [value |-> value, seen |-> seen]

\* the replacer of safeStringify: the value to serialize, and the list `seen`
replacer(h, seen, value) ==
    IF Is_objectLiteral(h, value) \/ IsArray(h, value)
    THEN IF \E i \in 1..Len(seen) : seen[i] = value
         THEN [value |-> CircularString, seen |-> seen]
         ELSE [value |-> value, seen |-> Append(seen, value)]
    ELSE [value |-> value, seen |-> seen]

\* JSON.stringify's SerializeJSONProperty, SerializeJSONObject and
\* SerializeJSONArray.  A result is [text, undef, seen, threw]: undef says the
\* property serializes to undefined, threw that JSON.stringify raised its
\* TypeError for a circular structure.  path holds the nodes being serialized
\* (the algorithm's own stack), withReplacer says whether the replacer is applied.
RECURSIVE SerializeProperty(_, _, _, _, _), SerializeMembers(_, _, _, _, _, _, _)
SerializeProperty(h, value0, seen, path, withReplacer) ==
    LET r == IF withReplacer THEN replacer(h, seen, value0)
             ELSE [value |-> value0, seen |-> seen]
        value == r.value
    IN IF value = Undefined
       THEN [text |-> "", undef |-> TRUE, seen |-> r.seen, threw |-> FALSE]
       ELSE IF ~IsRef(value)
       THEN [text |-> PrimJSON(value), undef |-> FALSE, seen |-> r.seen, threw |-> FALSE]
       ELSE IF value \in path
       THEN [text |-> "", undef |-> FALSE, seen |-> r.seen, threw |-> TRUE]
       ELSE LET m == SerializeMembers(h, value, r.seen, path \cup {value},
                                      withReplacer, 1, "")
            IN [text |-> (IF IsArray(h, value) THEN "[" ELSE "{") \o m.text
                         \o (IF IsArray(h, value) THEN "]" ELSE "}"),
                undef |-> FALSE, seen |-> m.seen, threw |-> m.threw]

\* the members of node obj from the i-th on, appended to the text acc
SerializeMembers(h, obj, seen, path, withReplacer, i, acc) ==
    IF i > Len(h[obj].keys)
    THEN [text |-> acc, seen |-> seen, threw |-> FALSE]
    ELSE LET e == SerializeProperty(h, h[obj].vals[i], seen, path, withReplacer)
             sep == IF acc = "" THEN "" ELSE ","
         IN IF e.threw THEN [text |-> acc, seen |-> e.seen, threw |-> TRUE]
            ELSE IF IsArray(h, obj)
            THEN SerializeMembers(h, obj, e.seen, path, withReplacer, i + 1,
                     acc \o sep \o (IF e.undef THEN "null" ELSE e.text))
            ELSE IF e.undef
            THEN SerializeMembers(h, obj, e.seen, path, withReplacer, i + 1, acc)
            ELSE SerializeMembers(h, obj, e.seen, path, withReplacer, i + 1,
                     acc \o sep \o "\"" \o h[obj].keys[i] \o "\":" \o e.text)

\* JSON.stringify(obj) without a replacer
JSONstringify(h, obj) == SerializeProperty(h, obj, <<>>, {}, FALSE)

\* safeStringify(obj)
safeStringify(h, obj) == SerializeProperty(h, obj, <<>>, {}, TRUE)

\* the primitives inside the graphs given to safeStringify
StringifyPrims == {Num1}

InitStringify ==
    /\ \E n \in 1..NumNodes : heap \in GraphHeaps(n, StringifyPrims, {"object", "array"})
    /\ args = [obj |-> 1]
    /\ heap0 = heap
    /\ pc = "ready"
    /\ Idle

CallSafeStringify ==
    /\ pc = "ready"
    /\ LET r == safeStringify(heap, args.obj)
       IN /\ ret' = r.text
          /\ pc' = IF r.threw THEN "threw" ELSE "done"
    /\ UNCHANGED <<heap, frozen, frozen0, args, stack, frames, encounteredObjects, heap0, srcNodes>>

NextStringify == CallSafeStringify

SpecStringify == InitStringify /\ [][NextStringify]_vars

\* the value written as a literal, each node written out at its first
\* occurrence in document order and as the string '[Circular]' at every later
\* one; [lit, seen], seen being the set of nodes written out so far
RECURSIVE Unfold(_, _, _), UnfoldVals(_, _, _, _, _)
Unfold(h, v, seen) ==
    IF ~IsRef(v) THEN [lit |-> PrimLit(v), seen |-> seen]
    ELSE IF v \in seen THEN [lit |-> PrimLit(CircularString), seen |-> seen]
    ELSE LET u == UnfoldVals(h, v, seen \cup {v}, 1, <<>>)
         IN [lit |-> [kind |-> h[v].kind, keys |-> h[v].keys, vals |-> u.lits],
             seen |-> u.seen]
UnfoldVals(h, v, seen, i, acc) ==
    IF i > Len(h[v].vals) THEN [lits |-> acc, seen |-> seen]
    ELSE LET u == Unfold(h, h[v].vals[i], seen)
         IN UnfoldVals(h, v, u.seen, i + 1, Append(acc, u.lit))

\* the JSON text of a literal
RECURSIVE LitJSON(_), LitMembersJSON(_, _)
LitJSON(l) ==
    IF l.kind = "prim" THEN PrimJSON(l.v)
    ELSE IF l.kind = "array" THEN "[" \o LitMembersJSON(l, 1) \o "]"
    ELSE "{" \o LitMembersJSON(l, 1) \o "}"
LitMembersJSON(l, i) ==
    IF i > Len(l.vals) THEN ""
    ELSE LET rest == LitMembersJSON(l, i + 1)
             item == IF l.kind = "array"
                     THEN IF l.vals[i] = PrimLit(Undefined) THEN "null" ELSE LitJSON(l.vals[i])
                     ELSE IF l.vals[i] = PrimLit(Undefined) THEN ""
                     ELSE "\"" \o l.keys[i] \o "\":" \o LitJSON(l.vals[i])
         IN IF item = "" THEN rest
            ELSE IF rest = "" THEN item
            ELSE item \o "," \o rest

\* every node of the graph is reached from the root by exactly one path
IsTree(h, root) ==
    /\ root \notin ReachFrom(h, Children(h, root))
    /\ \A r \in Reach(h, root) : \A i, j \in 1..Len(h[r].vals) :
           (i # j /\ IsRef(h[r].vals[i])) => h[r].vals[i] # h[r].vals[j]
    /\ \A r1, r2 \in Reach(h, root) :
           r1 # r2 => Children(h, r1) \cap Children(h, r2) = {}

\* C8: safeStringify(x) ends without raising on every graph, cyclic ones
\* included; its text is the JSON text of x with each node written out at its
\* first occurrence and '[Circular]' at every later one; for a tree it is the
\* text JSON.stringify gives.
SafeStringifyMarksRepeats ==
    /\ pc # "threw"
    /\ pc = "done" =>
          /\ ret = LitJSON(Unfold(heap, args.obj, {}).lit)
          /\ IsTree(heap, args.obj) =>
                 /\ ~JSONstringify(heap, args.obj).threw
                 /\ ret = JSONstringify(heap, args.obj).text

\* the root of a cyclic graph of three nodes was serialized
SafeStringifyWitness ==
    /\ pc = "done"
    /\ Len(heap) = 3
    /\ heap[3].vals = <<1>>
    /\ heap[1].vals = <<2, 2>>
    /\ heap[2].vals = <<3>>

---------------------------------------------------------------------------
(* deepFreeze *)

\* Object.isFrozen(v): true of every value that is not an object
IsFrozen(frz, v) == ~IsRef(v) \/ v \in frz

\* a loop that stops one element early
LoopStopsEarly(stk) == Len(stk) > 1

\* the condition of the while loop
LoopContinues(stk) == Len(stk) > 0

\* the values the for-in loop over obj pushes, from its i-th key on
RECURSIVE Pushed(_, _, _, _)
Pushed(h, frz, obj, i) ==
    IF i > Len(h[obj].keys) THEN <<>>
    ELSE LET prop == h[obj].vals[i]
         IN (IF TypeOf(prop) = "object" /\ ~IsFrozen(frz, prop) THEN <<prop>> ELSE <<>>)
            \o Pushed(h, frz, obj, i + 1)

\* the primitives inside the graphs given to deepFreeze
FreezePrims == {Null}
FreezeKinds == {"object", "array"}

InitFreeze ==
    /\ \E n \in 1..NumNodes :
          /\ heap \in GraphHeaps(n, FreezePrims, FreezeKinds)
          /\ frozen \in SUBSET (1..n)
    /\ frozen0 = frozen
    /\ args \in {[obj |-> v, calls |-> 0] : v \in {1} \cup {p \in FreezePrims : Len(heap) = 1}}
    /\ heap0 = heap
    /\ pc = "ready"
    /\ ret = Undefined
    /\ stack = <<>>
    /\ frames = <<>>
    /\ encounteredObjects = <<>>
    /\ srcNodes = {}

\* deepFreeze(obj) is called, for the first time or again on the same value
CallDeepFreeze ==
    /\ pc \in {"ready", "done"}
    /\ args.calls < 2
    /\ args' = [args EXCEPT !.calls = @ + 1]
    /\ frozen0' = frozen
    /\ IF ~Truthy(args.obj) \/ TypeOf(args.obj) # "object"
       THEN /\ ret' = args.obj
            /\ pc' = "done"
            /\ stack' = stack
       ELSE /\ stack' = <<args.obj>>
            /\ pc' = "freezing"
            /\ ret' = Undefined
    /\ UNCHANGED <<heap, frozen, frames, encounteredObjects, heap0, srcNodes>>

\* one turn of the while loop
FreezeStep ==
    /\ pc = "freezing"
    /\ LoopContinues(stack)
    /\ LET obj == Head(stack)
           frz == frozen \cup {obj}
       IN /\ frozen' = frz
          /\ stack' = Tail(stack) \o Pushed(heap, frz, obj, 1)
    /\ UNCHANGED <<heap, frozen0, pc, args, ret, frames, encounteredObjects, heap0, srcNodes>>

\* the loop is left and obj returned
FreezeReturn ==
    /\ pc = "freezing"
    /\ ~LoopContinues(stack)
    /\ ret' = args.obj
    /\ pc' = "done"
    /\ UNCHANGED <<heap, frozen, frozen0, args, stack, frames, encounteredObjects, heap0, srcNodes>>

NextFreeze == CallDeepFreeze \/ FreezeStep \/ FreezeReturn

SpecFreeze == InitFreeze /\ [][NextFreeze]_vars

\* the loop of deepFreeze is sequential code: it always takes its next step
SpecFreezeFair == SpecFreeze /\ WF_vars(FreezeStep) /\ WF_vars(FreezeReturn)

\* C3 as the claim states it: whatever nodes were frozen before the call,
\* deepFreeze(x) returns x and leaves every node reachable from x frozen.
DeepFreezeFreezesAllReachable ==
    pc = "done" =>
        /\ ret = args.obj
        /\ \A r \in Reach(heap, args.obj) : r \in frozen

\* C4: deepFreeze terminates on every finite graph, with cycles and shared
\* nodes: once started, the work queue is eventually empty and the call
\* returns; and a second call on the same graph changes nothing.
DeepFreezeTerminates ==
    /\ (pc = "freezing") ~> (pc = "done" /\ stack = <<>>)
    /\ [](args.calls = 2 => frozen = frozen0 /\ heap = heap0)

\* the second call has returned on a graph with a cycle and a node that two
\* properties of the root refer to
DeepFreezeWitness ==
    /\ pc = "done"
    /\ args.calls = 2
    /\ args.obj = 1
    /\ Len(heap) = 3
    /\ heap[1].vals = <<2, 2>>
    /\ heap[2].vals = <<3>>
    /\ heap[3].vals = <<1, 2>>
    /\ frozen = {1, 2, 3}

---------------------------------------------------------------------------
(* cloneAndChange *)

\* the depth of recursion at which the engine gives up with a RangeError; it
\* exceeds the depth any acyclic graph of the model needs
StackLimit == NumNodes + 2

\* changer(obj): a changer is given by the set of values it replaces (by the
\* number 2); for every other value it returns undefined
changer(c, obj) == IF obj \in c THEN Num2 ELSE Undefined

\* the primitives inside the graphs given to cloneAndChange
ChangePrims == {Num1}

InitCloneAndChange ==
    /\ \E n \in 1..NumNodes : heap \in GraphHeaps(n, ChangePrims, {"object", "array"})
    /\ args \in {[obj |-> 1, changer |-> c] : c \in {{}, {Num1}, {Len(heap)}}}
    /\ heap0 = heap
    /\ pc = "ready"
    /\ Idle

\* a pop that is left out
PopOmitted(enc) == enc

\* encounteredObjects.pop()
Pop(enc) == SubSeq(enc, 1, Len(enc) - 1)

\* an activation of _cloneAndChange(obj, changer, encounteredObjects): i = 0
\* when it has just been entered, else the index of the property its loop is
\* at; r is the copy it builds (r1 or r2)
Activation(obj) == [obj |-> obj, i |-> 0, r |-> Undefined]

\* cloneAndChange(obj, changer) calls _cloneAndChange(obj, changer, [])
CallCloneAndChange ==
    /\ pc = "ready"
    /\ frames' = <<Activation(args.obj)>>
    /\ encounteredObjects' = <<>>
    /\ pc' = "running"
    /\ UNCHANGED <<heap, frozen, frozen0, args, ret, stack, heap0, srcNodes>>

\* the activation on top, just entered, runs up to its loop, its return or
\* its throw
Enter ==
    /\ pc = "running"
    /\ frames # <<>>
    /\ LET top == Len(frames)
           obj == frames[top].obj
       IN /\ frames[top].i = 0
          /\ IF obj \in {Null, Undefined}
             THEN /\ ret' = obj
                  /\ pc' = "returning"
                  /\ UNCHANGED <<heap, frames, encounteredObjects>>
             ELSE IF changer(args.changer, obj) # Undefined
             THEN /\ ret' = changer(args.changer, obj)
                  /\ pc' = "returning"
                  /\ UNCHANGED <<heap, frames, encounteredObjects>>
             ELSE IF Is_array(heap, obj)
             THEN /\ heap' = Append(heap, [kind |-> "array", keys |-> <<>>, vals |-> <<>>])
                  /\ frames' = [frames EXCEPT ![top] = [obj |-> obj, i |-> 1, r |-> Len(heap) + 1]]
                  /\ UNCHANGED <<ret, pc, encounteredObjects>>
             ELSE IF Is_objectLiteral(heap, obj)
             THEN IF \E j \in 1..Len(encounteredObjects) : encounteredObjects[j] = obj
                  THEN /\ pc' = "threw"
                       /\ UNCHANGED <<heap, ret, frames, encounteredObjects>>
                  ELSE /\ encounteredObjects' = Append(encounteredObjects, obj)
                       /\ heap' = Append(heap, [kind |-> "object", keys |-> <<>>, vals |-> <<>>])
                       /\ frames' = [frames EXCEPT ![top] = [obj |-> obj, i |-> 1, r |-> Len(heap) + 1]]
                       /\ UNCHANGED <<ret, pc>>
             ELSE /\ ret' = obj
                  /\ pc' = "returning"
                  /\ UNCHANGED <<heap, frames, encounteredObjects>>
    /\ UNCHANGED <<frozen, frozen0, args, stack, heap0, srcNodes>>

\* the loop of the activation on top calls _cloneAndChange on its next
\* property; the engine raises a RangeError when the stack is exhausted
Recurse ==
    /\ pc = "running"
    /\ frames # <<>>
    /\ LET top == Len(frames)
           f == frames[top]
       IN /\ f.i >= 1
          /\ f.i <= Len(heap[f.obj].vals)
          /\ IF Len(frames) >= StackLimit
             THEN pc' = "overflow" /\ frames' = frames
             ELSE pc' = pc /\ frames' = Append(frames, Activation(heap[f.obj].vals[f.i]))
    /\ UNCHANGED <<heap, frozen, frozen0, args, ret, stack, encounteredObjects, heap0, srcNodes>>

\* the loop of the activation on top is over: it pops encounteredObjects when
\* it copied a mapping, and returns its copy
Finish ==
    /\ pc = "running"
    /\ frames # <<>>
    /\ LET f == frames[Len(frames)]
       IN /\ f.i >= 1
          /\ f.i > Len(heap[f.obj].vals)
          /\ encounteredObjects' =
                 IF Is_array(heap, f.obj) THEN encounteredObjects
                 ELSE Pop(encounteredObjects)
          /\ ret' = f.r
    /\ pc' = "returning"
    /\ UNCHANGED <<heap, frozen, frozen0, args, stack, frames, heap0, srcNodes>>

\* the value returned reaches the caller: the activation below stores it in
\* its copy and moves to its next property, or cloneAndChange returns it
Return ==
    /\ pc = "returning"
    /\ IF Len(frames) = 1
       THEN /\ frames' = <<>>
            /\ pc' = "done"
            /\ heap' = heap
       ELSE LET below == Len(frames) - 1
                f == frames[below]
            IN /\ heap' = SetProp(heap, f.r, heap[f.obj].keys[f.i], ret)
               /\ frames' = [SubSeq(frames, 1, below) EXCEPT ![below].i = f.i + 1]
               /\ pc' = "running"
    /\ UNCHANGED <<frozen, frozen0, args, ret, stack, encounteredObjects, heap0, srcNodes>>

NextCloneAndChange == CallCloneAndChange \/ Enter \/ Recurse \/ Finish \/ Return

SpecCloneAndChange == InitCloneAndChange /\ [][NextCloneAndChange]_vars

\* the plain mappings among the callers of the activation on top, outermost
\* first
CallerMappings ==
    LET IsMapping(v) == Is_objectLiteral(heap, v)
    IN SelectSeq([j \in 1..(Len(frames) - 1) |-> frames[j].obj], IsMapping)

\* C5 as the claim states it: with a changer that returns undefined for every
\* node, cloneAndChange on a graph with a node that is its own ancestor ends
\* with the 'Cannot clone recursive data-structure' error: it neither returns
\* nor recurses until the stack is exhausted.
CycleRaisesCloneError ==
    (args.changer = {} /\ ~Acyclic(heap0, args.obj)) => pc \notin {"done", "overflow"}

\* C9: whenever _cloneAndChange is entered, encounteredObjects holds exactly
\* the plain mappings on the path from the root to the node entered, in that
\* order; it is empty when the top-level call returns; and an acyclic graph,
\* shared nodes or not, is cloned without the recursive-structure error.
EncounteredIsPath ==
    /\ (pc = "running" /\ frames # <<>> /\ frames[Len(frames)].i = 0) =>
           encounteredObjects = CallerMappings
    /\ pc = "done" => encounteredObjects = <<>>
    /\ Acyclic(heap0, args.obj) => pc \notin {"threw", "overflow"}

\* a mapping shared by two properties of the root is entered for the second
\* time, below the root mapping
EncounteredWitness ==
    /\ pc = "running"
    /\ Len(frames) = 2
    /\ frames[2].i = 0
    /\ frames[1].i = 2
    /\ Is_objectLiteral(heap, frames[1].obj)
    /\ Is_objectLiteral(heap, frames[2].obj)
    /\ heap0[1].vals = <<2, 2>>
    /\ Acyclic(heap0, 1)
    /\ encounteredObjects = <<1>>

====
